---- MODULE Spec2Model ----
(***************************************************************************)
(* Model of azure/kusto/data/_models.py: the typed result-table decoder.   *)
(*                                                                         *)
(* A wire document (json_table) is decoded by KustoResultTable.__init__    *)
(* in three steps: the header (name, kind, columns), the scan for embedded *)
(* error objects, and one KustoResultRow construction per raw row.         *)
(*                                                                         *)
(* Python values are tagged records, so that values of different Python    *)
(* types are always comparable.  A Python str that is sliced or indexed by *)
(* the decoder (a cell value) is a sequence of one-character strings.      *)
(***************************************************************************)
EXTENDS Integers, Sequences, FiniteSets, TLC

VARIABLES
    json_table,                   \* the wire document handed to KustoResultTable
    keep_high_precision_values,   \* module flag, fixed at import time
    pc,                           \* position inside KustoResultTable.__init__
    table,                        \* the attributes of self set so far
    rows_acc,                     \* the list comprehension of line 198, so far
    raised,                       \* the exception that left the constructor
    conv_calls                    \* history: every converter call (row, col, func, arg)

vars == <<json_table, keep_high_precision_values, pc, table, rows_acc, raised, conv_calls>>

(***************************************************************************)
(* Bounds of the model.                                                    *)
(***************************************************************************)
MaxCols == 2
MaxRows == 3
MaxFrac == 8

(***************************************************************************)
(* Python values.                                                          *)
(***************************************************************************)
None == [t |-> "none"]
Absent == [t |-> "absent"]
Str(chars) == [t |-> "str", s |-> chars]
Atom(lit) == [t |-> "str", lit |-> lit]
IntV(n) == [t |-> "int", n |-> n]
NoExc == "none"

IsStr(v) == v.t = "str"

Digits == {"0", "1", "2", "3", "4", "5", "6", "7", "8", "9"}

Letters ==
    {"A", "B", "C", "D", "E", "F", "G", "H", "I", "J", "K", "L", "M",
     "N", "O", "P", "Q", "R", "S", "T", "U", "V", "W", "X", "Y", "Z",
     "a", "b", "c", "d", "e", "f", "g", "h", "i", "j", "k", "l", "m",
     "n", "o", "p", "q", "r", "s", "t", "u", "v", "w", "x", "y", "z"}

isdigit(c) == c \in Digits
isalpha(c) == c \in Letters

DigitVal(c) ==
    CASE c = "0" -> 0 [] c = "1" -> 1 [] c = "2" -> 2 [] c = "3" -> 3
      [] c = "4" -> 4 [] c = "5" -> 5 [] c = "6" -> 6 [] c = "7" -> 7
      [] c = "8" -> 8 [] c = "9" -> 9

DigitChar(n) ==
    CASE n = 0 -> "0" [] n = 1 -> "1" [] n = 2 -> "2" [] n = 3 -> "3"
      [] n = 4 -> "4" [] n = 5 -> "5" [] n = 6 -> "6" [] n = 7 -> "7"
      [] n = 8 -> "8" [] n = 9 -> "9"

AllDigits(s) == \A k \in 1..Len(s) : isdigit(s[k])

\* int(s) for a sequence of decimal digits
RECURSIVE DigitsToNat(_)
DigitsToNat(s) ==
    IF s = <<>> THEN 0
    ELSE 10 * DigitsToNat(SubSeq(s, 1, Len(s) - 1)) + DigitVal(s[Len(s)])

\* n written with exactly w decimal digits
RECURSIVE NatToDigits(_, _)
NatToDigits(n, w) ==
    IF w = 0 THEN <<>>
    ELSE NatToDigits(n \div 10, w - 1) \o <<DigitChar(n % 10)>>

\* a digit sequence without its trailing zeros: the canonical fraction of a float
RECURSIVE StripZeros(_)
StripZeros(s) ==
    IF s # <<>> /\ s[Len(s)] = "0" THEN StripZeros(SubSeq(s, 1, Len(s) - 1)) ELSE s

\* s[:-k]
DropLast(s, k) == IF k >= Len(s) THEN <<>> ELSE SubSeq(s, 1, Len(s) - k)

\* s[k:]
DropFirst(s, k) == IF k >= Len(s) THEN <<>> ELSE SubSeq(s, k + 1, Len(s))

\* str.split(sep) for a one-character separator: always at least one field
RECURSIVE split(_, _)
split(s, sep) ==
    IF \A k \in 1..Len(s) : s[k] # sep THEN <<s>>
    ELSE LET i == CHOOSE k \in 1..Len(s) :
                      s[k] = sep /\ \A j \in 1..(k - 1) : s[j] # sep
         IN <<SubSeq(s, 1, i - 1)>> \o split(DropFirst(s, i), sep)

\* str.lower() on the type names the documents carry
lower(lit) ==
    CASE lit = "DateTime" -> "datetime"
      [] lit = "TimeSpan" -> "timespan"
      [] OTHER -> lit

(***************************************************************************)
(* Outcome of a call: a value, or the exception that leaves it.            *)
(***************************************************************************)
Ok(v) == [exc |-> NoExc, v |-> v]
Raise(e) == [exc |-> e, v |-> None]

(***************************************************************************)
(* _converters.to_timedelta: a str is matched against the pattern          *)
(*   optional "-", optional (digits, any one character), two digits, ":",  *)
(*   two digits, ":", two digits, optional ("." and one or more digits)    *)
(* and becomes factor * timedelta(days, hours, minutes, seconds=float(s)); *)
(* a number is a count of 100 ns ticks.  A timedelta has microsecond       *)
(* resolution: it is kept as sign, whole seconds and microseconds.         *)
(***************************************************************************)
Timedelta(neg, whole, us) ==
    [t |-> "timedelta", neg |-> (neg /\ (whole > 0 \/ us > 0)), whole |-> whole, us |-> us]

\* microseconds of a fraction-digit string, rounded to the nearest microsecond
FracToMicros(f) ==
    LET six == SubSeq(f \o <<"0", "0", "0", "0", "0", "0">>, 1, 6)
        up == Len(f) >= 7 /\ DigitVal(f[7]) >= 5
    IN DigitsToNat(six) + (IF up THEN 1 ELSE 0)

TimespanFieldsOk(parts) ==
    /\ Len(parts) = 3
    /\ Len(parts[1]) >= 2
    /\ AllDigits(SubSeq(parts[1], Len(parts[1]) - 1, Len(parts[1])))
    /\ LET p == DropLast(parts[1], 2) IN p = <<>> \/ AllDigits(DropLast(p, 1))
    /\ Len(parts[2]) = 2 /\ AllDigits(parts[2])
    /\ LET sec == split(parts[3], ".")
       IN /\ Len(sec) \in {1, 2}
          /\ Len(sec[1]) = 2 /\ AllDigits(sec[1])
          /\ Len(sec) = 2 => (sec[2] # <<>> /\ AllDigits(sec[2]))

to_timedelta(value) ==
    IF value.t = "none" THEN Ok(None)
    ELSE IF value.t = "int" THEN
        LET mag == IF value.n < 0 THEN -value.n ELSE value.n
            q == mag \div 10
            r == mag % 10
            us == IF r > 5 THEN q + 1 ELSE IF r = 5 THEN q + (q % 2) ELSE q
        IN Ok(Timedelta(value.n < 0, us \div 1000000, us % 1000000))
    ELSE IF ~IsStr(value) THEN Raise("TypeError")
    ELSE
        LET neg == value.s # <<>> /\ value.s[1] = "-"
            body == IF neg THEN DropFirst(value.s, 1) ELSE value.s
            parts == split(body, ":")
        IN IF ~TimespanFieldsOk(parts) THEN Raise("ValueError")
           ELSE
               LET p == DropLast(parts[1], 2)
                   d == DigitsToNat(DropLast(p, 1))
                   h == DigitsToNat(SubSeq(parts[1], Len(parts[1]) - 1, Len(parts[1])))
                   m == DigitsToNat(parts[2])
                   sec == split(parts[3], ".")
                   us == IF Len(sec) = 2 THEN FracToMicros(sec[2]) ELSE 0
                   whole == d * 86400 + h * 3600 + m * 60 + DigitsToNat(sec[1])
               IN Ok(Timedelta(neg, whole + (us \div 1000000), us % 1000000))

(***************************************************************************)
(* _converters.to_datetime: ISO-8601 parsing of                            *)
(*   YYYY-MM-DDThh:mm:ss[.f+][Z|+hh:mm|-hh:mm]                             *)
(* to microsecond resolution (further fraction digits are dropped).        *)
(***************************************************************************)
DateShapeOk(s) ==
    /\ Len(s) >= 19
    /\ \A k \in 1..19 :
         IF k \in {5, 8} THEN s[k] = "-"
         ELSE IF k = 11 THEN s[k] = "T"
         ELSE IF k \in {14, 17} THEN s[k] = ":"
         ELSE isdigit(s[k])

ZoneOk(z) ==
    \/ z = <<>>
    \/ z = <<"Z">>
    \/ /\ Len(z) = 6
       /\ z[1] \in {"+", "-"}
       /\ z[4] = ":"
       /\ \A k \in {2, 3, 5, 6} : isdigit(z[k])

\* the number of leading decimal digits of s
RECURSIVE DigitRun(_)
DigitRun(s) == IF s # <<>> /\ isdigit(s[1]) THEN 1 + DigitRun(DropFirst(s, 1)) ELSE 0

to_datetime(value) ==
    IF ~IsStr(value) THEN Raise("TypeError")
    ELSE IF ~DateShapeOk(value.s) THEN Raise("ValueError")
    ELSE
        LET rest == DropFirst(value.s, 19)
            hasFrac == rest # <<>> /\ rest[1] = "."
            n == IF hasFrac THEN DigitRun(DropFirst(rest, 1)) ELSE 0
            frac == IF hasFrac THEN SubSeq(rest, 2, n + 1) ELSE <<>>
            zone == IF hasFrac THEN DropFirst(rest, n + 1) ELSE rest
        IN IF (hasFrac /\ n = 0) \/ ~ZoneOk(zone) THEN Raise("ValueError")
           ELSE Ok([t |-> "datetime",
                    base |-> SubSeq(value.s, 1, 19),
                    us |-> SubSeq(frac \o <<"0", "0", "0", "0", "0", "0">>, 1, 6),
                    zone |-> zone])

(***************************************************************************)
(* decimal.Decimal on the wire values of a decimal column.                 *)
(***************************************************************************)
DecimalTextOk(s) ==
    LET f == split(s, ".")
    IN /\ Len(f) \in {1, 2}
       /\ \A k \in 1..Len(f) : AllDigits(f[k])
       /\ \E k \in 1..Len(f) : f[k] # <<>>

Decimal(value) ==
    IF value.t = "int" THEN Ok([t |-> "decimal", text |-> <<DigitChar(value.n % 10)>>])
    ELSE IF ~IsStr(value) THEN Raise("TypeError")
    ELSE IF DecimalTextOk(value.s) THEN Ok([t |-> "decimal", text |-> value.s])
    ELSE Raise("InvalidOperation")

\* KustoResultRow.convertion_funcs
convertion_funcs == {"datetime", "timespan", "decimal"}

Convert(column_type, value) ==
    CASE column_type = "datetime" -> to_datetime(value)
      [] column_type = "timespan" -> to_timedelta(value)
      [] column_type = "decimal" -> Decimal(value)

(***************************************************************************)
(* Python dicts: functions from keys to values.  _value_by_name is keyed   *)
(* by column names and, on the untyped path, by the column object itself   *)
(* (an object hashes by identity: one key per column descriptor).          *)
(***************************************************************************)
EmptyDict == <<>>
Put(d, k, v) == [x \in (DOMAIN d) \cup {k} |-> IF x = k THEN v ELSE d[x]]
NameKey(name) == [k |-> "name", name |-> name]
ObjKey(column) == [k |-> "column", ordinal |-> column.ordinal]

(***************************************************************************)
(* Floats: total seconds as sign, whole seconds and the fraction digits    *)
(* without trailing zeros.                                                 *)
(***************************************************************************)
Float(neg, whole, frac) ==
    LET f == StripZeros(frac)
    IN [t |-> "float", neg |-> (neg /\ (whole > 0 \/ f # <<>>)), whole |-> whole, frac |-> f]

total_seconds(td) == Float(td.neg, td.whole, NatToDigits(td.us, 6))

\* a variant of the datetime branch that drops the 7th digit from the side value
PreciseDatetimeReplaced(raw_value, lookback, seventh_char, last) ==
    IF seventh_char # None /\ isdigit(seventh_char.s[1])
    THEN Str(DropLast(raw_value.s, lookback.n) \o <<"0", "0">> \o last)
    ELSE raw_value

\* datetime branch of _get_precise_repr
PreciseDatetime(raw_value, lookback, seventh_char, last) ==
    IF seventh_char # None /\ isdigit(seventh_char.s[1])
    THEN Str(DropLast(raw_value.s, lookback.n) \o seventh_char.s \o <<"0", "0">> \o last)
    ELSE raw_value

\* timespan branch of _get_precise_repr
PreciseTimespan(typed_value, seconds_fractions_part) ==
    IF seconds_fractions_part # None /\ seconds_fractions_part.s # <<>>
    THEN \* whole_part = int(typed_value.total_seconds()); float(str(whole_part) + "." + part)
         IF ~AllDigits(seconds_fractions_part.s) THEN Raise("ValueError")
         ELSE Ok(Float(typed_value.neg /\ typed_value.whole > 0,
                       typed_value.whole,
                       seconds_fractions_part.s))
    ELSE Ok(total_seconds(typed_value))

_get_precise_repr(t, raw_value, typed_value, seconds_fractions_part, last, lookback, seventh_char) ==
    IF t = "datetime" THEN Ok(PreciseDatetime(raw_value, lookback, seventh_char, last))
    ELSE IF t = "timespan" THEN PreciseTimespan(typed_value, seconds_fractions_part)
    ELSE Raise("ValueError")

(***************************************************************************)
(* KustoResultRow.__init__, one cell.                                      *)
(***************************************************************************)
\* line 83: value[-1] is evaluated outside the try block
SuffixDetect(value) ==
    IF ~IsStr(value) THEN Ok(<<>>)
    ELSE IF value.s = <<>> THEN Raise("IndexError")
    ELSE IF isalpha(value.s[Len(value.s)]) THEN Ok(<<value.s[Len(value.s)]>>)
    ELSE Ok(<<>>)

\* lines 94-96: the steps inside the try block, with what each had assigned
\* when an exception stopped them
PrecisionExtract(value) ==
    IF ~IsStr(value)
    THEN [err |-> "AttributeError", seconds_fractions_part |-> None, seventh_char |-> None]
    ELSE LET fields == split(value.s, ":")
         IN IF Len(fields) < 3
            THEN [err |-> "IndexError", seconds_fractions_part |-> None, seventh_char |-> None]
            ELSE LET sec == split(fields[3], ".")
                 IN IF Len(sec) < 2
                    THEN [err |-> "IndexError", seconds_fractions_part |-> None,
                          seventh_char |-> None]
                    ELSE IF Len(sec[2]) < 7
                    THEN [err |-> "IndexError", seconds_fractions_part |-> Str(sec[2]),
                          seventh_char |-> None]
                    ELSE [err |-> NoExc, seconds_fractions_part |-> Str(sec[2]),
                          seventh_char |-> Str(<<sec[2][7]>>)]

\* line 100
Lookback(last) == IF last # <<>> THEN 2 ELSE 1

\* line 101: the string handed to the converter when a 7th digit was found
Truncated(value, lookback, last) == Str(DropLast(value.s, lookback) \o last)

\* a variant of lines 104-109 that stores the digit without the duration's sign
UnsignedTick(column_type, tick, typed_value) == tick

\* lines 104-109: the adjustment stored for a non-zero tick
SignedTick(column_type, tick, typed_value) ==
    IF column_type = "datetime" THEN tick
    ELSE IF ~typed_value.neg THEN tick ELSE -tick

\* lines 140-141, and the side value of lines 119-130 when the flag is set
StoreCell(st, key, typed_value, hidden_value, hp) ==
    [st EXCEPT !.by_index = Append(@, typed_value),
               !.by_name = Put(@, key, typed_value),
               !.hidden = IF hp THEN Append(@, hidden_value) ELSE @]

\* the history of converter calls
LogCall(st, column, column_type, arg) ==
    [st EXCEPT !.calls = Append(@, [col |-> column.ordinal, func |-> column_type, arg |-> arg])]

\* lines 119-130, 140-141: the side value, then the typed value is stored
TemporalStore(column, typed_value, st, hp, precise) ==
    IF ~hp THEN [exc |-> NoExc,
                 st |-> StoreCell(st, NameKey(column.column_name), typed_value, None, hp)]
    ELSE IF precise.exc # NoExc THEN [exc |-> precise.exc, st |-> st]
    ELSE [exc |-> NoExc,
          st |-> StoreCell(st, NameKey(column.column_name), typed_value, precise.v, hp)]

\* lines 103-111: a non-zero tick is recorded under the column's name
RecordTick(column, column_type, st, tick, typed_value) ==
    IF tick # 0
    THEN [st EXCEPT !.seventh_digit =
             Put(@, column.column_name, SignedTick(column_type, tick, typed_value))]
    ELSE st

\* lines 99-130, once the converter has returned or raised
TemporalConverted(column, column_type, value, st, hp, last, px, lookback, tick, conv) ==
    IF conv.exc # NoExc THEN [exc |-> conv.exc, st |-> st]
    ELSE TemporalStore(column, conv.v,
                       RecordTick(column, column_type, st, tick, conv.v), hp,
                       IF hp
                       THEN _get_precise_repr(column_type, value, conv.v,
                                              px.seconds_fractions_part, last, lookback,
                                              px.seventh_char)
                       ELSE Ok(None))

\* line 98
SeventhIsDigit(px) == px.err = NoExc /\ isdigit(px.seventh_char.s[1])

\* lines 98-115: the converter is called on the truncated string when the 7th
\* character is a digit, on the raw value otherwise
TemporalConvert(column, column_type, value, st, hp, last, px, arg) ==
    TemporalConverted(column, column_type, value,
                      LogCall(st, column, column_type, arg), hp, last, px,
                      IF SeventhIsDigit(px) THEN IntV(Lookback(last)) ELSE None,
                      IF SeventhIsDigit(px) THEN DigitVal(px.seventh_char.s[1]) ELSE 0,
                      Convert(column_type, arg))

\* lines 86-115
TemporalExtracted(column, column_type, value, st, hp, last, px) ==
    TemporalConvert(column, column_type, value, st, hp, last, px,
                    IF SeventhIsDigit(px) THEN Truncated(value, Lookback(last), last)
                    ELSE value)

\* lines 83-130, once line 83 has returned or raised
TemporalSuffixed(column, column_type, value, st, hp, suffix) ==
    IF suffix.exc # NoExc THEN [exc |-> suffix.exc, st |-> st]
    ELSE TemporalExtracted(column, column_type, value, st, hp, suffix.v,
                           PrecisionExtract(value))

\* lines 81-130: a non-null cell of a datetime or timespan column
DecodeTemporal(column, column_type, value, st, hp) ==
    TemporalSuffixed(column, column_type, value, st, hp, SuffixDetect(value))

\* lines 131-134: a column with a converter that is not temporal
DecodeConverted(column, column_type, value, st, hp, conv) ==
    IF conv.exc # NoExc THEN [exc |-> conv.exc, st |-> st]
    ELSE [exc |-> NoExc,
          st |-> StoreCell(st, NameKey(column.column_name), conv.v, value, hp)]

\* lines 74-141, with the column's lowercased type
DecodeTyped(column, column_type, value, st, hp) ==
    IF column_type \in {"datetime", "timespan"}
    THEN IF value = None
         THEN [exc |-> NoExc,
               st |-> StoreCell(st, NameKey(column.column_name), None, None, hp)]
         ELSE DecodeTemporal(column, column_type, value, st, hp)
    ELSE IF column_type \in convertion_funcs
    THEN DecodeConverted(column, column_type, value,
                         LogCall(st, column, column_type, value), hp,
                         Convert(column_type, value))
    ELSE [exc |-> NoExc,
          st |-> StoreCell(st, NameKey(column.column_name), value, value, hp)]

\* lines 64-141 for one column descriptor
DecodeColumn(column, value, st, hp) ==
    IF column.column_type = None
    THEN \* AttributeError on .lower(): the value passes through, keyed by the column
         [exc |-> NoExc, st |-> StoreCell(st, ObjKey(column), value, value, hp)]
    ELSE DecodeTyped(column, lower(column.column_type.lit), value, st, hp)

\* lines 63-141: the body of the loop for cell i (0-based) holding value
DecodeCell(columns, i, value, st, hp) ==
    IF i >= Len(columns) THEN [exc |-> "IndexError", st |-> st]
    ELSE DecodeColumn(columns[i + 1], value, st, hp)

EmptyRow ==
    [by_index |-> <<>>, by_name |-> EmptyDict, hidden |-> <<>>,
     seventh_digit |-> EmptyDict, calls |-> <<>>]

\* lines 63-141: the loop; the next cell is the one after those stored by index
RECURSIVE RowLoop(_, _, _, _)
RowLoop(columns, cells, r, hp) ==
    IF r.exc # NoExc \/ Len(r.st.by_index) >= Len(cells) THEN r
    ELSE RowLoop(columns, cells,
                 DecodeCell(columns, Len(r.st.by_index), cells[Len(r.st.by_index) + 1],
                            r.st, hp),
                 hp)

\* enumerate(row): a list yields its cells, a dict yields its keys
RowCells(row) ==
    IF row.t = "list" THEN row.cells
    ELSE <<Str(<<"O", "n", "e", "A", "p", "i", "E", "r", "r", "o", "r", "s">>)>>

\* KustoResultRow(columns, row)
KustoResultRow(columns, row, hp) ==
    RowLoop(columns, RowCells(row), [exc |-> NoExc, st |-> EmptyRow], hp)

\* KustoResultRow.columns_count, __len__
row_columns_count(row) == Cardinality(DOMAIN row.by_name)

\* KustoResultRow.__getitem__ with an integer key (0-based); IndexError past the end
row_getitem(row, key) ==
    IF key < Len(row.by_index) THEN Ok(row.by_index[key + 1]) ELSE Raise("IndexError")

\* KustoResultRow.__iter__ run to its end: the values yielded, or the exception
RECURSIVE IterFrom(_, _)
IterFrom(row, i) ==
    IF i >= row_columns_count(row) THEN [exc |-> NoExc, v |-> <<>>]
    ELSE LET item == row_getitem(row, i)
             rest == IterFrom(row, i + 1)
         IN IF item.exc # NoExc THEN [exc |-> item.exc, v |-> <<>>]
            ELSE [exc |-> rest.exc, v |-> <<item.v>> \o rest.v]

row_iter(row) == IterFrom(row, 0)

(***************************************************************************)
(* KustoResultColumn and WellKnownDataSet.                                 *)
(***************************************************************************)
WellKnownDataSetNames ==
    {"PrimaryResult", "QueryCompletionInformation", "TableOfContents", "QueryProperties"}

\* an Enum member: not a str, its value is the member's string
Member(name) == [t |-> "enum", class |-> "WellKnownDataSet", name |-> name, value |-> Atom(name)]

\* WellKnownDataSet[name]
WellKnownDataSet(name) ==
    IF name \in WellKnownDataSetNames THEN Ok(Member(name)) ELSE Raise("KeyError")

\* bool(v) of a metadata value
Truthy(v) == v # Absent /\ v # None /\ v # Atom("")

\* dict.get(key): None when the key is absent
Get(v) == IF v = Absent THEN None ELSE v

\* KustoResultColumn(json_column, ordinal)
KustoResultColumn(json_column, ordinal) ==
    IF json_column.ColumnName = Absent THEN Raise("KeyError")
    ELSE IF Truthy(Get(json_column.ColumnType))
    THEN Ok([column_name |-> json_column.ColumnName.lit,
             column_type |-> json_column.ColumnType, ordinal |-> ordinal])
    ELSE IF json_column.DataType = Absent THEN Raise("KeyError")
    ELSE Ok([column_name |-> json_column.ColumnName.lit,
             column_type |-> json_column.DataType, ordinal |-> ordinal])

\* line 192: the columns, or the first exception of the comprehension
RECURSIVE ColumnsFrom(_, _)
ColumnsFrom(json_columns, i) ==
    IF i >= Len(json_columns) THEN Ok(<<>>)
    ELSE LET c == KustoResultColumn(json_columns[i + 1], i)
             rest == ColumnsFrom(json_columns, i + 1)
         IN IF c.exc # NoExc THEN Raise(c.exc)
            ELSE IF rest.exc # NoExc THEN rest
            ELSE Ok(<<c.v>> \o rest.v)

(***************************************************************************)
(* KustoResultTable.__init__                                               *)
(***************************************************************************)
NotRaised == [type |-> NoExc, message |-> "", payload |-> None]
Exception(type) == [type |-> type, message |-> "", payload |-> None]
KustoServiceError(message, payload) ==
    [type |-> "KustoServiceError", message |-> message, payload |-> payload]

NoTable == [table_name |-> None, table_id |-> None, table_kind |-> None,
            columns |-> <<>>, rows |-> <<>>]

isdict(row) == row.t = "dict"

\* line 194
Errors(rows) == SelectSeq(rows, isdict)

\* a variant of line 196 reading the last error object instead of the first
LastErrorMessage(errors) == errors[Len(errors)].OneApiErrors[1].error.message

\* line 196: errors[0]["OneApiErrors"][0]["error"]["@message"]
FirstErrorMessage(errors) == errors[1].OneApiErrors[1].error.message

\* lines 189-192
Header ==
    /\ pc = "start"
    /\ LET kind == IF json_table.TableKind = Absent THEN Ok(None)
                   ELSE WellKnownDataSet(json_table.TableKind.lit)
           cols == ColumnsFrom(json_table.Columns, 0)
       IN IF kind.exc # NoExc
          THEN /\ raised' = Exception(kind.exc)
               /\ pc' = "raised"
               /\ table' = table
          ELSE IF cols.exc # NoExc
          THEN /\ raised' = Exception(cols.exc)
               /\ pc' = "raised"
               /\ table' = table
          ELSE /\ table' = [table EXCEPT !.table_name = Get(json_table.TableName),
                                         !.table_id = Get(json_table.TableId),
                                         !.table_kind = kind.v,
                                         !.columns = cols.v]
               /\ pc' = "errors"
               /\ raised' = raised
    /\ UNCHANGED <<json_table, keep_high_precision_values, rows_acc, conv_calls>>

\* lines 194-196
CheckErrors ==
    /\ pc = "errors"
    /\ LET errors == Errors(json_table.Rows)
       IN IF errors # <<>>
          THEN /\ raised' = KustoServiceError(FirstErrorMessage(errors), json_table)
               /\ pc' = "raised"
          ELSE /\ raised' = raised
               /\ pc' = "rows"
    /\ UNCHANGED <<json_table, keep_high_precision_values, table, rows_acc, conv_calls>>

\* the converter calls of row k (0-based) added to the history
RowCalls(k, calls) ==
    [c \in 1..Len(calls) |->
        [row |-> k, col |-> calls[c].col, func |-> calls[c].func, arg |-> calls[c].arg]]

\* the constructor of one row has returned or raised
RowDecoded(k, r) ==
    /\ conv_calls' = conv_calls \o RowCalls(k, r.st.calls)
    /\ IF r.exc # NoExc
       THEN /\ raised' = Exception(r.exc)
            /\ pc' = "raised"
            /\ rows_acc' = rows_acc
       ELSE /\ rows_acc' = Append(rows_acc, [x \in {"by_index", "by_name", "hidden",
                                                     "seventh_digit"} |-> r.st[x]])
            /\ raised' = raised
            /\ pc' = pc

\* line 198: one step of the comprehension, KustoResultRow(self.columns, row)
DecodeRow ==
    /\ pc = "rows"
    /\ Len(rows_acc) < Len(json_table.Rows)
    /\ RowDecoded(Len(rows_acc),
                  KustoResultRow(table.columns, json_table.Rows[Len(rows_acc) + 1],
                                 keep_high_precision_values))
    /\ UNCHANGED <<json_table, keep_high_precision_values, table>>

\* line 198: the finished list becomes self.rows and the constructor returns
AssignRows ==
    /\ pc = "rows"
    /\ Len(rows_acc) = Len(json_table.Rows)
    /\ table' = [table EXCEPT !.rows = rows_acc]
    /\ pc' = "done"
    /\ UNCHANGED <<json_table, keep_high_precision_values, rows_acc, raised, conv_calls>>

\* a variant of to_dict that renders the kind as its string value
table_to_dict_rendered(tbl) ==
    [name |-> tbl.table_name, kind |-> tbl.table_kind.value,
     data |-> [r \in 1..Len(tbl.rows) |-> tbl.rows[r].by_name]]

\* KustoResultTable.to_dict
table_to_dict(tbl) ==
    [name |-> tbl.table_name, kind |-> tbl.table_kind,
     data |-> [r \in 1..Len(tbl.rows) |-> tbl.rows[r].by_name]]

\* what json.dumps can serialize among the decoded values and keys
Serializable(d) ==
    \A k \in DOMAIN d : k.k = "name" /\ d[k].t \in {"none", "str", "int"}

\* KustoResultTable.__str__: d["kind"] = d["kind"].value, then json.dumps(d)
table_str(tbl) ==
    LET d == table_to_dict(tbl)
    IN IF d.kind = None THEN Raise("AttributeError")
       ELSE IF \E r \in 1..Len(d.data) : ~Serializable(d.data[r]) THEN Raise("TypeError")
       ELSE Ok([name |-> d.name, kind |-> d.kind.value, data |-> d.data])

(***************************************************************************)
(* The wire documents the decoder is run on.                               *)
(***************************************************************************)
DateBase ==
    <<"2", "0", "2", "1", "-", "0", "1", "-", "0", "1", "T",
      "0", "0", ":", "0", "0", ":", "0", "0">>

\* fraction digits: 7th digit non-zero, 7th digit zero, all zero up to the 7th
FracPatterns ==
    { <<"1", "2", "3", "4", "5", "6", "7", "8", "9", "1">>,
      <<"1", "2", "3", "4", "5", "6", "0", "8", "9", "1">>,
      <<"0", "0", "0", "0", "0", "0", "7", "0", "5", "1">> }

FracTexts ==
    {<<>>} \cup { <<".">> \o SubSeq(p, 1, n) : p \in FracPatterns, n \in 1..MaxFrac }

Zones == { <<>>, <<"Z">>, <<"+", "0", "0", ":", "0", "0">> }

DatetimeTexts == { DateBase \o f \o z : f \in FracTexts, z \in Zones }

TimespanTexts ==
    { sg \o d \o <<"0", "0", ":", "0", "0", ":">> \o sec \o f :
        sg \in {<<>>, <<"-">>}, d \in {<<>>, <<"1", ".">>},
        sec \in {<<"0", "0">>, <<"0", "1">>}, f \in FracTexts }

\* values that are no timestamp or duration text
Malformed ==
    { Str(<<>>), Str(<<"a", "b", "c">>), Str(<<"0", "0", ":", "0", "0">>), IntV(5) }

RichValues(type) ==
    {None} \cup Malformed
      \cup (IF type = "datetime" THEN { Str(x) : x \in DatetimeTexts }
            ELSE { Str(x) : x \in TimespanTexts })

JsonColumn(name, ct, dt) == [ColumnName |-> Atom(name), ColumnType |-> ct, DataType |-> dt]
ListRow(cells) == [t |-> "list", cells |-> cells]
ErrorRow(message) == [t |-> "dict", OneApiErrors |-> <<[error |-> [message |-> message]]>>]

Document(kind, columns, rows) ==
    [TableName |-> Atom("Table_0"), TableId |-> Absent, TableKind |-> kind,
     Columns |-> columns, Rows |-> rows]

Names == {"a", "b"}

\* column metadata: v2 (ColumnType), v1 (DataType), a null type, no type key at all
TypeMetas ==
    { [ct |-> Atom("datetime"), dt |-> Absent],
      [ct |-> Absent, dt |-> Atom("TimeSpan")],
      [ct |-> Atom("decimal"), dt |-> Absent],
      [ct |-> Atom("string"), dt |-> Absent],
      [ct |-> Absent, dt |-> None],
      [ct |-> Absent, dt |-> Absent] }

ColSpecs == { JsonColumn(n, m.ct, m.dt) : n \in Names, m \in TypeMetas }

Ts7 == Str(<<"-", "0", "0", ":", "0", "0", ":", "0", "1", ".",
             "1", "2", "3", "4", "5", "6", "7">>)
Dt7 == Str(DateBase \o <<".", "1", "2", "3", "4", "5", "6", "7">>)
Text == Str(<<"a", "b", "c">>)
Num == Str(<<"1", ".", "5">>)

SmallValues(c) ==
    IF c.ColumnType = Atom("datetime") THEN {None, Dt7}
    ELSE IF c.DataType = Atom("TimeSpan") THEN {Ts7, Str(<<"0", "0", ":", "0", "0", ":", "0", "1">>)}
    ELSE IF c.ColumnType = Atom("decimal") THEN {Num, IntV(5)}
    ELSE IF c.ColumnType = Atom("string") THEN {Text, None}
    ELSE {IntV(5), Text}

AllSmall == UNION { SmallValues(c) : c \in ColSpecs }

\* rows with one cell per column
FullRows(cols) ==
    { ListRow(cells) : cells \in { x \in [1..Len(cols) -> AllSmall] :
                                      \A i \in 1..Len(cols) : x[i] \in SmallValues(cols[i]) } }

\* full rows, a row one cell short, a row one cell long, an embedded error object
RowOptions(cols) ==
    FullRows(cols)
      \cup { ListRow(SubSeq(r.cells, 1, Len(cols) - 1)) : r \in FullRows(cols) }
      \cup { ListRow(Append(r.cells, IntV(5))) : r \in FullRows(cols) }
      \cup { ErrorRow("e1"), ErrorRow("e2") }

SeqsUpTo(S, n) == UNION { [1..k -> S] : k \in 0..n }

Primary == Atom("PrimaryResult")

\* up to MaxCols columns, one row
ColumnDoc(doc) ==
    \E cols \in SeqsUpTo(ColSpecs, MaxCols) \ {<<>>} :
        \E r \in RowOptions(cols) : doc = Document(Primary, cols, <<r>>)

\* one column, up to MaxRows rows
RowDoc(doc) ==
    \E c \in { x \in ColSpecs : x.ColumnName = Atom("a") } :
        \E rows \in SeqsUpTo(RowOptions(<<c>>), MaxRows) : doc = Document(Primary, <<c>>, rows)

\* every table kind, recognized or not, and none
KindDoc(doc) ==
    \E k \in { Atom(n) : n \in WellKnownDataSetNames } \cup { Atom("Unknown"), Absent } :
        \E rows \in SeqsUpTo({ ListRow(<<Text>>), ListRow(<<None>>), ErrorRow("e1") }, 2) :
            doc = Document(k, <<JsonColumn("a", Atom("string"), Absent)>>, rows)

\* one temporal column, one cell
CellDoc(doc) ==
    \E type \in {"datetime", "timespan"} :
        \E v \in RichValues(type) :
            doc = Document(Primary, <<JsonColumn("a", Atom(type), Absent)>>, <<ListRow(<<v>>)>>)

Init ==
    /\ \/ ColumnDoc(json_table)
       \/ RowDoc(json_table)
       \/ KindDoc(json_table)
       \/ CellDoc(json_table)
    /\ keep_high_precision_values \in BOOLEAN
    /\ pc = "start"
    /\ table = NoTable
    /\ rows_acc = <<>>
    /\ raised = NotRaised
    /\ conv_calls = <<>>

Next == Header \/ CheckErrors \/ DecodeRow \/ AssignRows

Spec == Init /\ [][Next]_vars

(***************************************************************************)
(* Vocabulary of the properties.                                           *)
(***************************************************************************)
Done == pc = "done"

\* the lowercased wire type of a column descriptor, "" when it has none
ColType(c) == IF c.column_type = None THEN "" ELSE lower(c.column_type.lit)

IsTemporal(c) == ColType(c) \in {"datetime", "timespan"}

RawRow(r) == json_table.Rows[r]
RawCell(r, i) == json_table.Rows[r].cells[i]

\* the raw rows are all arrays, with one cell per column
FullRow(r) == RawRow(r).t = "list" /\ Len(RawRow(r).cells) = Len(table.columns)

\* a str carrying a 7th character in the fraction of its seconds field
HasSeventh(v) == IsStr(v) /\ PrecisionExtract(v).err = NoExc
SeventhChar(v) == PrecisionExtract(v).seventh_char.s[1]
HasSeventhDigit(v) == HasSeventh(v) /\ isdigit(SeventhChar(v))

\* the position of that character in the raw string
SeventhPos(chars) ==
    LET fields == split(chars, ":")
        sec == split(fields[3], ".")
    IN Len(fields[1]) + 1 + Len(fields[2]) + 1 + Len(sec[1]) + 1 + 7

RemoveAt(chars, p) == SubSeq(chars, 1, p - 1) \o SubSeq(chars, p + 1, Len(chars))
ReplaceAt(chars, p, x) == SubSeq(chars, 1, p - 1) \o x \o SubSeq(chars, p + 1, Len(chars))
InsertAfter(chars, p, x) == SubSeq(chars, 1, p) \o x \o SubSeq(chars, p + 1, Len(chars))

\* the trailing alphabetic character of a non-empty str, if any
Suffix(chars) == IF chars # <<>> /\ isalpha(chars[Len(chars)]) THEN <<chars[Len(chars)]>> ELSE <<>>

\* column i is the last column of its name among the first n
LastOfName(i, n) ==
    \A j \in (i + 1)..n : table.columns[j].column_name # table.columns[i].column_name

DistinctNames ==
    \A i, j \in 1..Len(table.columns) :
        i # j => table.columns[i].column_name # table.columns[j].column_name

HasErrorRow == \E r \in 1..Len(json_table.Rows) : RawRow(r).t = "dict"
FirstErrorRow == CHOOSE r \in 1..Len(json_table.Rows) :
                    RawRow(r).t = "dict" /\ \A q \in 1..(r - 1) : RawRow(q).t # "dict"

Dt6 == Str(DateBase \o <<".", "1", "2", "3", "4", "5", "6">>)

(***************************************************************************)
(* C1.  Whenever the Rows of a document hold an embedded error object, at  *)
(* any position, and the header of the document was accepted (recognized   *)
(* or absent kind, column metadata with a name and a type key), the        *)
(* constructor never gets past the error scan: it raises KustoServiceError *)
(* with the message of the first error object in row order and the whole   *)
(* raw document, no row has been decoded, no converter called, and no      *)
(* table is returned.                                                      *)
(***************************************************************************)
C1_ErrorRowAborts ==
    (HasErrorRow /\ pc # "start" /\ raised.type # "KeyError") =>
        /\ pc \in {"errors", "raised"}
        /\ rows_acc = <<>> /\ table.rows = <<>> /\ conv_calls = <<>>
        /\ pc = "raised" =>
             raised = KustoServiceError(RawRow(FirstErrorRow).OneApiErrors[1].error.message,
                                        json_table)

\* raised on a document whose first row is well-formed and whose second and
\* third rows are error objects: the message is the second row's
C1_Witness ==
    /\ pc = "raised" /\ raised.type = "KustoServiceError" /\ raised.message = "e2"
    /\ Len(json_table.Rows) = 3
    /\ RawRow(1).t = "list" /\ Len(RawRow(1).cells) = 1
    /\ RawRow(2) = ErrorRow("e2") /\ RawRow(3) = ErrorRow("e1")

(***************************************************************************)
(* C2.  In a constructed table, every row with one cell per column has one *)
(* position-indexed value per column, in column order, and one name-       *)
(* indexed entry per distinct column name, holding the value of the last   *)
(* column of that name; the rows are those of the document, in order.      *)
(***************************************************************************)
C2_DualIndex ==
    Done =>
        /\ Len(table.rows) = Len(json_table.Rows)
        /\ \A r \in 1..Len(table.rows) :
             FullRow(r) =>
               LET row == table.rows[r]
                   n == Len(table.columns)
               IN /\ Len(row.by_index) = n
                  /\ \A i \in 1..n :
                       row.by_index[i] =
                         DecodeColumn(table.columns[i], RawCell(r, i), EmptyRow,
                                      keep_high_precision_values).st.by_index[1]
                  /\ DOMAIN row.by_name =
                       { NameKey(table.columns[i].column_name) : i \in 1..n }
                  /\ \A i \in 1..n :
                       LastOfName(i, n) =>
                         row.by_name[NameKey(table.columns[i].column_name)] = row.by_index[i]

(***************************************************************************)
(* C3.  The length of a decoded row with one cell per column is the number *)
(* of columns of the table, and iterating it yields its position-indexed   *)
(* values, also when columns share a name.                                 *)
(***************************************************************************)
C3_RowLength ==
    Done =>
        \A r \in 1..Len(table.rows) :
            FullRow(r) =>
                /\ row_columns_count(table.rows[r]) = Len(table.columns)
                /\ row_iter(table.rows[r]) = Ok(table.rows[r].by_index)

\* the cells of the decoded rows of a constructed table: row r, column i
Cells == { <<r, i>> \in (1..Len(table.rows)) \X (1..Len(table.columns)) :
             i <= Len(RawRow(r).cells) }

NameOf(i) == table.columns[i].column_name

(***************************************************************************)
(* C4 as claimed.  With high-precision mode on, the datetime raw value     *)
(* "2021-01-01T00:00:00.1234567" decodes to the value of                   *)
(* "2021-01-01T00:00:00.123456", a sub-tick adjustment of 7 and the side   *)
(* value "2021-01-01T00:00:00.123456" + "00"; a datetime whose 7th         *)
(* fraction digit is a non-zero digit has as side value the raw string     *)
(* with that digit replaced by "00"; any other datetime has the raw string *)
(* as side value.                                                          *)
(***************************************************************************)
C4_SideValueReplaces7th ==
    (Done /\ keep_high_precision_values) =>
        \A c \in Cells :
            LET raw == RawCell(c[1], c[2])
                row == table.rows[c[1]]
                nonzero == HasSeventhDigit(raw) /\ SeventhChar(raw) # "0"
            IN (ColType(table.columns[c[2]]) = "datetime" /\ raw # None) =>
                 /\ raw = Dt7 =>
                      /\ row.by_index[c[2]] = to_datetime(Dt6).v
                      /\ LastOfName(c[2], Len(table.columns)) =>
                           row.seventh_digit[NameOf(c[2])] = 7
                      /\ row.hidden[c[2]] = Str(Dt6.s \o <<"0", "0">>)
                 /\ nonzero => row.hidden[c[2]] =
                                 Str(ReplaceAt(raw.s, SeventhPos(raw.s), <<"0", "0">>))
                 /\ ~nonzero => row.hidden[c[2]] = raw

(***************************************************************************)
(* C4 as amended.  With high-precision mode on, the datetime raw value     *)
(* "2021-01-01T00:00:00.1234567" decodes to the value of                   *)
(* "2021-01-01T00:00:00.123456", a sub-tick adjustment of 7 under the      *)
(* column's name (no later column sharing it), and the side value          *)
(* "2021-01-01T00:00:00.1234567" + "00".  A datetime string whose 7th      *)
(* fraction character is a digit, zero included, and is the last character *)
(* before the optional one-letter suffix has as side value the raw string  *)
(* with "00" inserted after that digit; a datetime string with no 7th      *)
(* fraction character, or one that is no digit, has the raw string.        *)
(***************************************************************************)
C4_SideValueKeeps7th ==
    (Done /\ keep_high_precision_values) =>
        \A c \in Cells :
            LET raw == RawCell(c[1], c[2])
                row == table.rows[c[1]]
            IN (ColType(table.columns[c[2]]) = "datetime" /\ raw # None) =>
                 /\ raw = Dt7 =>
                      /\ row.by_index[c[2]] = to_datetime(Dt6).v
                      /\ LastOfName(c[2], Len(table.columns)) =>
                           row.seventh_digit[NameOf(c[2])] = 7
                      /\ row.hidden[c[2]] = Str(Dt7.s \o <<"0", "0">>)
                 /\ (HasSeventhDigit(raw)
                       /\ SeventhPos(raw.s) = Len(raw.s) - Len(Suffix(raw.s))) =>
                      row.hidden[c[2]] =
                        Str(InsertAfter(raw.s, SeventhPos(raw.s), <<"0", "0">>))
                 /\ (IsStr(raw) /\ ~HasSeventhDigit(raw)) => row.hidden[c[2]] = raw

\* a datetime with a 7th digit and a suffix letter was decoded: the digit and
\* the letter are both kept in the side value
C4_Witness ==
    /\ Done /\ keep_high_precision_values
    /\ \E c \in Cells :
         /\ ColType(table.columns[c[2]]) = "datetime"
         /\ RawCell(c[1], c[2]) = Str(Dt7.s \o <<"Z">>)
         /\ table.rows[c[1]].hidden[c[2]] = Str(Dt7.s \o <<"0", "0", "Z">>)

(***************************************************************************)
(* C5.  After any row is decoded, its sub-tick mapping has an entry under  *)
(* a column name exactly when a datetime or timespan cell of a column of   *)
(* that name carried a non-zero decimal digit as 7th fraction character (a *)
(* 7th digit of 0 creates none).  The entry is that of the last such       *)
(* column: the digit for a datetime; for a timespan the digit when the     *)
(* truncated duration is zero or positive and minus the digit when it is   *)
(* negative.  Every entry is a non-zero integer in -9..9.                  *)
(***************************************************************************)
Ticked(r, i) ==
    /\ IsTemporal(table.columns[i])
    /\ HasSeventhDigit(RawCell(r, i))
    /\ SeventhChar(RawCell(r, i)) # "0"

C5_SubTickEntries ==
    \A r \in 1..Len(rows_acc) :
        LET sd == rows_acc[r].seventh_digit
            n == Len(RawRow(r).cells)
        IN /\ \A name \in { NameOf(i) : i \in 1..Len(table.columns) } :
                (name \in DOMAIN sd) <=> (\E i \in 1..n : NameOf(i) = name /\ Ticked(r, i))
           /\ \A name \in DOMAIN sd : sd[name] \in (-9..9) \ {0}
           /\ \A i \in 1..n :
                (Ticked(r, i) /\ \A j \in (i + 1)..n : ~(NameOf(j) = NameOf(i) /\ Ticked(r, j)))
                  => sd[NameOf(i)] =
                       IF ColType(table.columns[i]) = "timespan" /\ rows_acc[r].by_index[i].neg
                       THEN -DigitVal(SeventhChar(RawCell(r, i)))
                       ELSE DigitVal(SeventhChar(RawCell(r, i)))

\* a negative timespan with 7th digit 7 was decoded and -7 recorded
C5_Witness ==
    \E r \in 1..Len(rows_acc) :
        /\ Len(RawRow(r).cells) >= 1
        /\ ColType(table.columns[1]) = "timespan"
        /\ Ticked(r, 1)
        /\ rows_acc[r].by_index[1].neg
        /\ rows_acc[r].seventh_digit[NameOf(1)] = -7

(***************************************************************************)
(* C6.  A document with a column whose metadata has neither a ColumnType   *)
(* nor a DataType key is constructed without a KeyError, and the values of *)
(* that column pass through unchanged: by position, by the column's name,  *)
(* and (high-precision mode on) in the side-value slot.                    *)
(***************************************************************************)
Untyped(jc) == jc.ColumnType = Absent /\ jc.DataType = Absent

C6_UntypedColumnPassesThrough ==
    (\E i \in 1..Len(json_table.Columns) : Untyped(json_table.Columns[i])) =>
        /\ raised.type # "KeyError"
        /\ Done =>
             \A c \in Cells :
                 Untyped(json_table.Columns[c[2]]) =>
                     /\ table.rows[c[1]].by_index[c[2]] = RawCell(c[1], c[2])
                     /\ LastOfName(c[2], Len(table.columns)) =>
                          /\ NameKey(NameOf(c[2])) \in DOMAIN table.rows[c[1]].by_name
                          /\ table.rows[c[1]].by_name[NameKey(NameOf(c[2]))] = RawCell(c[1], c[2])
                     /\ keep_high_precision_values =>
                          table.rows[c[1]].hidden[c[2]] = RawCell(c[1], c[2])

(***************************************************************************)
(* C7 as claimed.  A table constructed with one of the four recognized     *)
(* kind strings has, in to_dict(), a "kind" entry equal to that string.    *)
(***************************************************************************)
RecognizedKind ==
    json_table.TableKind # Absent /\ json_table.TableKind.lit \in WellKnownDataSetNames

C8_ExtractionNeverPropagates ==
    (\A r \in 1..Len(json_table.Rows) :
        RawRow(r).t = "list" /\ Len(RawRow(r).cells) <= Len(json_table.Columns)) =>
        /\ raised.type \notin {"IndexError", "AttributeError"}
        /\ Done =>
             \A c \in Cells :
                 (IsTemporal(table.columns[c[2]]) /\ RawCell(c[1], c[2]) # None
                    /\ ~HasSeventhDigit(RawCell(c[1], c[2]))) =>
                     table.rows[c[1]].by_index[c[2]] =
                         Convert(ColType(table.columns[c[2]]), RawCell(c[1], c[2])).v

(***************************************************************************)
(* C9.  For a datetime or timespan string with a decimal digit as 7th      *)
(* fraction character, the string handed to the converter is the raw       *)
(* string without exactly that character, whatever follows it.             *)
(***************************************************************************)
C9_SeventhCharRemoved ==
    \A k \in 1..Len(conv_calls) :
        LET call == conv_calls[k]
            raw == RawCell(call.row + 1, call.col + 1)
        IN (call.func \in {"datetime", "timespan"} /\ HasSeventhDigit(raw)) =>
             call.arg = Str(RemoveAt(raw.s, SeventhPos(raw.s)))

(***************************************************************************)
(* C10.  With high-precision mode on, the side value of a non-null         *)
(* timespan cell with at most 7 fraction digits is, in units of 100 ns,    *)
(* the truncated duration plus the column's sub-tick adjustment (0 when    *)
(* none is recorded), and has the sign of the truncated duration.          *)
(***************************************************************************)
FractionLen(v) ==
    IF IsStr(v) /\ PrecisionExtract(v).seconds_fractions_part # None
    THEN Len(PrecisionExtract(v).seconds_fractions_part.s) ELSE 0

C10_SideValueIsTypedPlusTick ==
    (Done /\ keep_high_precision_values /\ DistinctNames) =>
        \A c \in Cells :
            LET raw == RawCell(c[1], c[2])
                row == table.rows[c[1]]
                typed == row.by_index[c[2]]
                adj == IF NameOf(c[2]) \in DOMAIN row.seventh_digit
                       THEN row.seventh_digit[NameOf(c[2])] ELSE 0
                mag == IF adj < 0 THEN -adj ELSE adj
            IN (ColType(table.columns[c[2]]) = "timespan" /\ raw # None
                  /\ FractionLen(raw) <= 7) =>
                 row.hidden[c[2]] =
                     Float(typed.neg, typed.whole, NatToDigits(typed.us, 6) \o <<DigitChar(mag)>>)

====
